---- MODULE Spec2Model ----
(***************************************************************************)
(* The chat session of ollama-chat: the Chat component (chat.tsx), its     *)
(* input form (chat-input.tsx) and the session state machine behind the    *)
(* useChat hook, driven by user interface events and by the protocol       *)
(* events of the streaming transport.                                      *)
(*                                                                         *)
(* Texts are sequences of one-character strings, so that String.trim() is  *)
(* computed and not assumed.                                               *)
(***************************************************************************)
EXTENDS Integers, Sequences, FiniteSets, TLC

\* ------------------------------------------------------------------ bounds
\* Number of transport calls (sendMessage) explored in one behaviour.
MaxSends == 2
\* Number of protocol events the transport delivers in one behaviour.
MaxEvents == 2
\* Number of times the user changes the selected model in one behaviour.
MaxModelChanges == 1
\* Length of the event sequences replayed against the assembler.
MaxReplayLen == 4

\* ------------------------------------------------------------------- texts
IsSpace(c) == c \in {" ", "\n", "\t"}

RECURSIVE TrimStart(_)
TrimStart(s) ==
  IF s = <<>> THEN <<>>
  ELSE IF IsSpace(Head(s)) THEN TrimStart(Tail(s)) ELSE s

RECURSIVE TrimEnd(_)
TrimEnd(s) ==
  IF s = <<>> THEN <<>>
  ELSE IF IsSpace(s[Len(s)]) THEN TrimEnd(SubSeq(s, 1, Len(s) - 1)) ELSE s

\* String.prototype.trim(), as used by `input.trim()`.
Trim(s) == TrimEnd(TrimStart(s))

\* What the user can have in the textarea: nothing, only white space, text.
Texts == {<<>>, <<" ">>, <<"a">>}

\* The example prompts of the empty state, abstracted to one non-blank text.
ExamplePrompts == {<<"a">>}

\* The model ids the selector can set.
ModelIds == {"llama3.2", "mistral"}

\* Error payloads carried by error events (the Error's message).
ErrorMessages == {"Failed to fetch"}

NoError == "none"

\* ------------------------------------------------------- protocol events
Hi == <<"H", "i">>
There == <<" ", "t", "h", "e", "r", "e">>

TextDelta(t) == [type |-> "text-delta", text |-> t]
ErrorEvent(m) == [type |-> "error", message |-> m]
ToolCall(id, name) == [type |-> "tool-call", id |-> id, name |-> name]
ToolResult(id, result) == [type |-> "tool-result", id |-> id, result |-> result]
FinishEvent == [type |-> "finish", reason |-> "stop"]

ProtocolEvents ==
  {TextDelta(t) : t \in {Hi}}
    \cup {ErrorEvent(m) : m \in ErrorMessages}
    \cup {FinishEvent}

IsTerminating(ev) == ev.type \in {"error", "finish"}

Requests == 1..MaxSends

VARIABLES
  \* Chat component state (useState)
  selectedModel, input, chatError,
  \* how often the selected model was changed
  modelChanges,
  \* session state exposed by useChat
  messages, status, error, activeRequest,
  \* transport: connection state and events delivered but not yet processed
  conn, wire, sent,
  \* what AnimatePresence keeps mounted
  button, sendEnabled, panelMounted, panelInput,
  \* the control used in the last step, and what handleSubmit did in it
  lastOp, hs,
  \* a failure on its way to the error panel: the model id posted to the chat
  \* endpoint, the failure raised, the panel shown, the classifications made
  posted, failure, shown, seen,
  \* an event sequence replayed against fresh messages by the assembler
  events, replays,
  \* a message list and status given to the message list, with what it shows
  listing,
  \* the model catalogue: the answer of the Ollama server to /tags, the answer
  \* of GET /api/models, and the state of the ModelSelector
  tags, catalogue, selector,
  \* a request body given to the chat route, and its response
  chatRequest, chatResponse

chatVars == <<selectedModel, input, chatError>>
sessionVars == <<messages, status, error, activeRequest>>
transportVars == <<conn, wire, sent>>
viewVars == <<button, sendEnabled, panelMounted, panelInput>>
failureVars == <<posted, failure, shown, seen>>
replayVars == <<events, replays>>
renderVars == <<listing>>
catalogueVars == <<tags, catalogue, selector>>
routeVars == <<chatRequest, chatResponse>>
restVars == <<renderVars, catalogueVars, routeVars>>
appVars ==
  <<chatVars, modelChanges, sessionVars, transportVars, viewVars, lastOp, hs>>
vars == <<appVars, failureVars, replayVars, restVars>>

\* The ModelSelector when it mounts: useState([]), useState(true).
SelectorMounted == [phase |-> "mounted", models |-> <<>>, loading |-> TRUE]

\* The ModelSelector after the catalogue was fetched with the models the
\* selector can set in it.
SelectorLoaded ==
  [phase |-> "done", models |-> <<"llama3.2", "mistral">>, loading |-> FALSE]

InitWith(sel) ==
  /\ selectedModel = "llama3.2"
  /\ input = <<>>
  /\ chatError = NoError
  /\ modelChanges = 0
  /\ messages = <<>>
  /\ status = "idle"
  /\ error = NoError
  /\ activeRequest = 0
  /\ conn = [r \in Requests |-> "none"]
  /\ wire = [r \in Requests |-> <<>>]
  /\ sent = 0
  /\ button = "send"
  /\ sendEnabled = FALSE
  /\ panelMounted = FALSE
  /\ panelInput = <<>>
  /\ lastOp = "other"
  /\ hs = "none"
  /\ posted = <<>>
  /\ failure = [connection |-> "none", httpStatus |-> 0, error |-> NoError]
  /\ shown = [type |-> "none", details |-> <<>>]
  /\ seen = {}
  /\ events = <<>>
  /\ replays = <<>>
  /\ listing = [status |-> "none"]
  /\ tags = [kind |-> "none"]
  /\ catalogue = [status |-> 0]
  /\ selector = sel
  /\ chatRequest = [kind |-> "none"]
  /\ chatResponse = [status |-> 0]

\* The chat, with the model catalogue loaded.
Init == InitWith(SelectorLoaded)

\* The page at its first render: the ModelSelector has just mounted.
CatalogueInit == InitWith(SelectorMounted)

\* The state as one record, so that a handler is a function from state to
\* state and one handler can call another (handleRetry -> handleSubmit).
Cur ==
  [selectedModel |-> selectedModel, input |-> input, chatError |-> chatError,
   modelChanges |-> modelChanges,
   messages |-> messages, status |-> status, error |-> error,
   activeRequest |-> activeRequest, conn |-> conn, wire |-> wire, sent |-> sent]

\* ------------------------------------------------------ derived UI state
\* const isLoading = status === 'streaming' || status === 'submitted'
Loading(st) == st = "streaming" \/ st = "submitted"

isLoading == Loading(status)

\* const canSend = input.trim() && !isLoading
CanSendOf(inp, st) == Trim(inp) # <<>> /\ ~Loading(st)

canSend == CanSendOf(input, status)

\* <textarea disabled={isLoading}>
TextareaDisabled == isLoading

\* {isLoading ? <stop button> : <send button>}
WantedButton(st) == IF Loading(st) THEN "stop" ELSE "send"

\* messages.length !== 0 and (chatError || error): the error panel is rendered
PanelPresentOf(s) ==
  Len(s.messages) # 0 /\ (s.chatError # NoError \/ s.error # NoError)

PanelPresent == PanelPresentOf(Cur)

\* ------------------------------------------------------ message assembler
TextPart(t) == [type |-> "text", text |-> t]

\* text-delta: append to the last text part if one is open, else open one.
ApplyTextDelta(parts, t) ==
  IF parts # <<>> /\ parts[Len(parts)].type = "text"
  THEN [parts EXCEPT ![Len(parts)].text = @ \o t]
  ELSE Append(parts, TextPart(t))

\* tool-call: a tool invocation part without a result yet.
ToolInvocation(id, name) ==
  [type |-> "tool-invocation", id |-> id, name |-> name, result |-> "none"]

\* The toolInvocation parts with this correlation id that lack a result.
OpenInvocations(parts, id) ==
  {j \in 1..Len(parts) :
     /\ parts[j].type = "tool-invocation"
     /\ parts[j].id = id
     /\ parts[j].result = "none"}

\* tool-result: no open toolInvocation part carries the id of the event.
AssemblyError(ev, msg) ==
  ev.type = "tool-result" /\ OpenInvocations(msg.parts, ev.id) = {}

\* tool-result that is filled into the most recent open toolInvocation part
\* whatever its id.
ApplyToolResult_AnyId(parts, id, result) ==
  LET open == {j \in 1..Len(parts) :
                 parts[j].type = "tool-invocation" /\ parts[j].result = "none"}
  IN IF open = {} THEN parts
     ELSE LET j == CHOOSE x \in open : \A y \in open : y <= x
          IN [parts EXCEPT ![j].result = result]

\* tool-result: fill in the most recent open toolInvocation part with the id;
\* without one the message stays as it was.
ApplyToolResult(parts, id, result) ==
  LET open == OpenInvocations(parts, id)
  IN IF open = {} THEN parts
     ELSE LET j == CHOOSE x \in open : \A y \in open : y <= x
          IN [parts EXCEPT ![j].result = result]

UserMessage(id, text, model) ==
  [id |-> id, role |-> "user", parts |-> <<TextPart(text)>>,
   reason |-> "n/a", req |-> 0, model |-> model]

Placeholder(id, r) ==
  [id |-> id, role |-> "assistant", parts |-> <<>>,
   reason |-> "none", req |-> r, model |-> "n/a"]

\* apply(event, targetMessage) that never merges a delta into the open text
\* part of a message with an even id.
Apply_ByMessage(ev, msg) ==
  CASE ev.type = "text-delta" ->
         [msg EXCEPT !.parts = IF msg.id % 2 = 0
                               THEN Append(@, TextPart(ev.text))
                               ELSE ApplyTextDelta(@, ev.text)]
    [] ev.type = "tool-call" ->
         [msg EXCEPT !.parts = Append(@, ToolInvocation(ev.id, ev.name))]
    [] ev.type = "tool-result" ->
         [msg EXCEPT !.parts = ApplyToolResult(@, ev.id, ev.result)]
    [] ev.type = "finish" -> [msg EXCEPT !.reason = "completed"]
    [] ev.type = "error" -> [msg EXCEPT !.reason = "errored"]

\* apply(event, targetMessage) of the assembler, for a message that is open;
\* an error event ends the message as the session marks it.
Apply(ev, msg) ==
  CASE ev.type = "text-delta" ->
         [msg EXCEPT !.parts = ApplyTextDelta(@, ev.text)]
    [] ev.type = "tool-call" ->
         [msg EXCEPT !.parts = Append(@, ToolInvocation(ev.id, ev.name))]
    [] ev.type = "tool-result" ->
         [msg EXCEPT !.parts = ApplyToolResult(@, ev.id, ev.result)]
    [] ev.type = "finish" -> [msg EXCEPT !.reason = "completed"]
    [] ev.type = "error" -> [msg EXCEPT !.reason = "errored"]

\* After finish the message is closed: a later event is discarded.
ApplyOpen(ev, msg) == IF msg.reason # "none" THEN msg ELSE Apply(ev, msg)

\* The assistant message opened for request r.
AssistantOf(msgs, r) ==
  CHOOSE i \in 1..Len(msgs) : msgs[i].role = "assistant" /\ msgs[i].req = r

\* The assistant messages that are still open (not terminal).
InFlight(msgs) ==
  {i \in 1..Len(msgs) : msgs[i].role = "assistant" /\ msgs[i].reason = "none"}

\* ------------------------------------------------------------- transport
FreeRequests(s) == {r \in Requests : s.conn[r] = "none"}

NextRequest(s) == CHOOSE r \in FreeRequests(s) : \A q \in FreeRequests(s) : r <= q

TransportCalls(s) == Cardinality({r \in Requests : s.conn[r] # "none"})

\* ----------------------------------------------------- session operations
\* sendMessage({text, metadata: {model}}): append the user message, open the
\* placeholder assistant message, go to submitted, call the transport once.
\* A new submission leaves the error state.
SendMessage(s, text, model) ==
  LET r == NextRequest(s)
      n == Len(s.messages)
  IN [s EXCEPT
        !.messages = s.messages \o
                       <<UserMessage(n + 1, text, model), Placeholder(n + 2, r)>>,
        !.status = "submitted",
        !.error = NoError,
        !.activeRequest = r,
        !.conn = [s.conn EXCEPT ![r] = "open"]]

\* The continuation of handleSubmit after `await sendMessage(...)`: setInput('')
SendSettled(s) == [s EXCEPT !.input = <<>>]

\* onError that sends the submitted text again by itself.
OnError_Resend(s, e) ==
  IF FreeRequests(s) = {} THEN [s EXCEPT !.chatError = e]
  ELSE SendMessage([s EXCEPT !.chatError = e], s.input, s.selectedModel)

\* onError: (error) => { setChatError(error) }
OnError(s, e) == [s EXCEPT !.chatError = e]

Release(s, r) == IF s.activeRequest = r THEN 0 ELSE s.activeRequest

\* The cancellation of the active request: the transport is cancelled, the
\* assistant message becomes terminal with reason cancelled, the status ready;
\* the pending sendMessage settles.
Cancelled(s) ==
  LET r == s.activeRequest
      i == AssistantOf(s.messages, r)
  IN SendSettled(
       [s EXCEPT
          !.conn = [s.conn EXCEPT ![r] = "closed"],
          !.messages = [s.messages EXCEPT ![i].reason = "cancelled"],
          !.status = "ready",
          !.activeRequest = 0])

\* stop() that does not look at the status.
Stop_Always(s) ==
  IF s.activeRequest # 0 THEN Cancelled(s) ELSE [s EXCEPT !.status = "ready"]

\* stop() that discards the partial reply.
Stop_DropsParts(s) ==
  IF ~Loading(s.status) THEN s
  ELSE LET i == AssistantOf(s.messages, s.activeRequest)
       IN Cancelled([s EXCEPT !.messages = [s.messages EXCEPT ![i].parts = <<>>]])

\* stop(): no-op unless submitted or streaming; otherwise cancel.
Stop(s) == IF ~Loading(s.status) THEN s ELSE Cancelled(s)

\* Events applied to the newest assistant message, whichever request sent them.
Target_Newest(s, r) ==
  CHOOSE i \in 1..Len(s.messages) :
    /\ s.messages[i].role = "assistant"
    /\ \A j \in 1..Len(s.messages) : s.messages[j].role = "assistant" => j <= i

\* The message an event of request r is applied to: the assistant message
\* opened for r.
Target(s, r) == AssistantOf(s.messages, r)

\* Events applied to a terminal message too.
Accepts_Always(s, i) == TRUE

\* An event is applied while the message is not terminal.
Accepts(s, i) == s.messages[i].reason = "none"

\* One protocol event of request r, applied to the session.
ApplyEvent(s, r, ev) ==
  LET i == Target(s, r) IN
  IF ~Accepts(s, i) THEN s   \* delivered, then ignored
  ELSE CASE ev.type = "text-delta" ->
              [s EXCEPT
                 !.messages = [s.messages EXCEPT ![i] = Apply(ev, @)],
                 !.status = IF @ = "submitted" THEN "streaming" ELSE @]
         [] ev.type = "finish" ->
              SendSettled(
                [s EXCEPT
                   !.messages = [s.messages EXCEPT ![i] = Apply(ev, @)],
                   !.status = "ready",
                   !.activeRequest = Release(s, r)])
         [] ev.type = "error" ->
              SendSettled(OnError(
                [s EXCEPT
                   !.messages = [s.messages EXCEPT ![i] = Apply(ev, @)],
                   !.status = "error",
                   !.error = ev.message,
                   !.activeRequest = Release(s, r)], ev.message))

\* ------------------------------------------------------- Chat's handlers
\* handleSubmit with `if (!input) return`: the text is not trimmed.
HandleSubmit_NoTrim(s) ==
  IF s.input = <<>> THEN s
  ELSE SendMessage([s EXCEPT !.chatError = NoError], s.input, s.selectedModel)

\* handleSubmit sending the default model instead of the selected one.
HandleSubmit_DefaultModel(s) ==
  IF Trim(s.input) = <<>> THEN s
  ELSE SendMessage([s EXCEPT !.chatError = NoError], s.input, "llama3.2")

\* handleSubmit: if (!input.trim()) return; setChatError(null);
\* await sendMessage({text: input, metadata: {model: selectedModel}})
HandleSubmit(s) ==
  IF Trim(s.input) = <<>> THEN s
  ELSE SendMessage([s EXCEPT !.chatError = NoError], s.input, s.selectedModel)

SubmitOutcome(s) == IF Trim(s.input) = <<>> THEN "returned" ELSE "sent"

\* handleSubmit can run: it returns early or a request is left in the bound.
CanSubmit(s) == Trim(s.input) = <<>> \/ FreeRequests(s) # {}

\* handleRetry, with the `input` its closure captured at the last render:
\* setChatError(null); if (input.trim()) form.requestSubmit()
Resubmits(closureInput) == Trim(closureInput) # <<>>

HandleRetry(s, closureInput) ==
  LET s1 == [s EXCEPT !.chatError = NoError]
  IN IF Resubmits(closureInput) THEN HandleSubmit(s1) ELSE s1

\* handleErrorDismiss: setChatError(null)
HandleErrorDismiss(s) == [s EXCEPT !.chatError = NoError]

\* ------------------------------------------------------------ rendering
\* The next state, and what stays mounted after the render it causes.
\* AnimatePresence keeps a removed child mounted, with the props of its
\* last render, until its exit animation has run.
Commit(s, op, outcome) ==
  /\ selectedModel' = s.selectedModel
  /\ input' = s.input
  /\ chatError' = s.chatError
  /\ modelChanges' = s.modelChanges
  /\ messages' = s.messages
  /\ status' = s.status
  /\ error' = s.error
  /\ activeRequest' = s.activeRequest
  /\ conn' = s.conn
  /\ wire' = s.wire
  /\ sent' = s.sent
  /\ button' = button
  /\ sendEnabled' =
       IF button # "send" THEN FALSE
       ELSE IF WantedButton(s.status) = "send"
            THEN CanSendOf(s.input, s.status)
            ELSE sendEnabled
  /\ panelMounted' = (PanelPresentOf(s) \/ panelMounted)
  /\ panelInput' = IF PanelPresentOf(s) THEN s.input ELSE panelInput
  /\ lastOp' = op
  /\ hs' = outcome
  /\ UNCHANGED <<failureVars, replayVars, restVars>>

\* The options of the selector: models.map(model => <Listbox.Option value={model.id}>)
SelectorOptions == {selector.models[i] : i \in 1..Len(selector.models)}

\* ------------------------------------------------------------- UI events
\* typing: handleInputChange, on an enabled textarea
TypeInput ==
  /\ ~TextareaDisabled
  /\ \E v \in Texts : Commit([Cur EXCEPT !.input = v], "other", "none")

\* handlePromptSelect, from the empty state (rendered while there is no message)
PromptSelect ==
  /\ Len(messages) = 0
  /\ \E p \in ExamplePrompts : Commit([Cur EXCEPT !.input = p], "other", "none")

\* ModelSelector onChange -> setSelectedModel; <Listbox disabled={loading}>
SelectModel ==
  /\ modelChanges < MaxModelChanges
  /\ ~selector.loading
  /\ \E m \in ModelIds \ {selectedModel} :
       /\ m \in SelectorOptions
       /\ Commit([Cur EXCEPT !.selectedModel = m,
                             !.modelChanges = modelChanges + 1],
                 "other", "none")

\* click on the mounted send button (type="submit", disabled={!canSend})
SendClick ==
  /\ button = "send"
  /\ sendEnabled
  /\ CanSubmit(Cur)
  /\ Commit(HandleSubmit(Cur), "submit", SubmitOutcome(Cur))

\* Enter in the textarea: handleKeyDown -> form.requestSubmit()
EnterKey ==
  /\ ~TextareaDisabled
  /\ CanSubmit(Cur)
  /\ Commit(HandleSubmit(Cur), "submit", SubmitOutcome(Cur))

\* click on the mounted stop button: onStop = stop
StopClick ==
  /\ button = "stop"
  /\ Commit(Stop(Cur), "stop", "none")

\* click on Try Again of the mounted error panel
RetryClick ==
  /\ panelMounted
  /\ ~Resubmits(panelInput) \/ CanSubmit(Cur)
  /\ Commit(HandleRetry(Cur, panelInput), "retry",
            IF Resubmits(panelInput) THEN SubmitOutcome(Cur) ELSE "none")

\* click on Dismiss of the mounted error panel
DismissClick ==
  /\ panelMounted
  /\ Commit(HandleErrorDismiss(Cur), "other", "none")

\* The exit animation of the send/stop button ends (mode="wait"): the other
\* button mounts.
ButtonExitComplete ==
  /\ button # WantedButton(status)
  /\ button' = WantedButton(status)
  /\ sendEnabled' = (WantedButton(status) = "send" /\ canSend)
  /\ lastOp' = "other"
  /\ hs' = "none"
  /\ UNCHANGED <<chatVars, modelChanges, sessionVars, transportVars,
                 panelMounted, panelInput, failureVars, replayVars, restVars>>

\* The exit animation of the error panel ends: it unmounts.
PanelExitComplete ==
  /\ panelMounted
  /\ ~PanelPresent
  /\ panelMounted' = FALSE
  /\ panelInput' = <<>>
  /\ lastOp' = "other"
  /\ hs' = "none"
  /\ UNCHANGED <<chatVars, modelChanges, sessionVars, transportVars,
                 button, sendEnabled, failureVars, replayVars, restVars>>

\* ------------------------------------------------------ transport events
\* The transport delivers the next event of an open connection; a finish or
\* an error event is its last.
Deliver ==
  \E r \in Requests, ev \in ProtocolEvents :
    /\ conn[r] = "open"
    /\ sent < MaxEvents
    /\ Commit([Cur EXCEPT
                 !.wire = [wire EXCEPT ![r] = Append(@, ev)],
                 !.sent = sent + 1,
                 !.conn = [conn EXCEPT ![r] =
                             IF IsTerminating(ev) THEN "closed" ELSE @]],
              "other", "none")

\* The session takes the oldest delivered event of a request and applies it.
Process ==
  \E r \in Requests :
    /\ wire[r] # <<>>
    /\ Commit(ApplyEvent([Cur EXCEPT !.wire = [wire EXCEPT ![r] = Tail(@)]],
                         r, Head(wire[r])),
              "other", "none")

Next ==
  \/ TypeInput
  \/ PromptSelect
  \/ SelectModel
  \/ SendClick
  \/ EnterKey
  \/ StopClick
  \/ RetryClick
  \/ DismissClick
  \/ ButtonExitComplete
  \/ PanelExitComplete
  \/ Deliver
  \/ Process

Spec == Init /\ [][Next]_vars

\* ---------------------------------------------------------- message list
\* message.parts?.filter(part => part.type === 'text')
\*               .map(part => part.text).join('') || ''
\* The message list showing the first text part only.
DisplayedText_FirstPart(parts) ==
  IF \E i \in 1..Len(parts) : parts[i].type = "text"
  THEN parts[CHOOSE i \in 1..Len(parts) :
               /\ parts[i].type = "text"
               /\ \A j \in 1..(i - 1) : parts[j].type # "text"].text
  ELSE <<>>

RECURSIVE DisplayedText(_)
DisplayedText(parts) ==
  IF parts = <<>> THEN <<>>
  ELSE IF Head(parts).type = "text"
       THEN Head(parts).text \o DisplayedText(Tail(parts))
       ELSE DisplayedText(Tail(parts))

\* The message list hidden while an error is shown.
MessageListRendered_NoError(s) ==
  Len(s.messages) # 0 /\ s.chatError = NoError /\ s.error = NoError

\* messages.length === 0 ? <EmptyState> : <MessageList messages={...}>
MessageListRendered(s) == Len(s.messages) # 0

\* The texts the message list shows, one per message.
Displayed(s) ==
  IF MessageListRendered(s)
  THEN [i \in 1..Len(s.messages) |-> DisplayedText(s.messages[i].parts)]
  ELSE <<>>

\* ------------------------------------------------------ error classification
Upper ==
  <<"A", "B", "C", "D", "E", "F", "G", "H", "I", "J", "K", "L", "M",
    "N", "O", "P", "Q", "R", "S", "T", "U", "V", "W", "X", "Y", "Z">>

Lower ==
  <<"a", "b", "c", "d", "e", "f", "g", "h", "i", "j", "k", "l", "m",
    "n", "o", "p", "q", "r", "s", "t", "u", "v", "w", "x", "y", "z">>

ToLowerChar(c) ==
  IF \E i \in 1..Len(Upper) : Upper[i] = c
  THEN Lower[CHOOSE i \in 1..Len(Upper) : Upper[i] = c]
  ELSE c

\* String.prototype.toLowerCase()
ToLowerCase(t) == [i \in 1..Len(t) |-> ToLowerChar(t[i])]

\* String.prototype.includes(sub)
Includes(t, sub) ==
  \E i \in 0..(Len(t) - Len(sub)) : SubSeq(t, i + 1, i + Len(sub)) = sub

\* The words getErrorType looks for.
WordNetwork == <<"n", "e", "t", "w", "o", "r", "k">>
WordFetch == <<"f", "e", "t", "c", "h">>
WordConnection == <<"c", "o", "n", "n", "e", "c", "t", "i", "o", "n">>
WordApi == <<"a", "p", "i">>
WordHttp == <<"h", "t", "t", "p">>
WordStatus == <<"s", "t", "a", "t", "u", "s">>
WordModel == <<"m", "o", "d", "e", "l">>
WordOllama == <<"o", "l", "l", "a", "m", "a">>

\* getErrorType(error), on the text of error.message
getErrorType(text) ==
  LET message == ToLowerCase(text) IN
  IF Includes(message, WordNetwork) \/ Includes(message, WordFetch)
       \/ Includes(message, WordConnection)
  THEN "network"
  ELSE IF Includes(message, WordApi) \/ Includes(message, WordHttp)
            \/ Includes(message, WordStatus)
  THEN "api"
  ELSE IF Includes(message, WordModel) \/ Includes(message, WordOllama)
  THEN "model"
  ELSE "unknown"

\* error.message of an Error, character by character. An Error is named by
\* its message in the state.
MessageText(e) ==
  CASE e = "Failed to fetch" ->
         <<"F", "a", "i", "l", "e", "d", " ", "t", "o", " ", "f", "e",
           "t", "c", "h">>
    [] e = "Load failed" ->
         <<"L", "o", "a", "d", " ", "f", "a", "i", "l", "e", "d">>
    [] e = "NetworkError when attempting to fetch resource." ->
         <<"N", "e", "t", "w", "o", "r", "k", "E", "r", "r", "o", "r",
           " ", "w", "h", "e", "n", " ", "a", "t", "t", "e", "m", "p",
           "t", "i", "n", "g", " ", "t", "o", " ", "f", "e", "t", "c",
           "h", " ", "r", "e", "s", "o", "u", "r", "c", "e", ".">>
    [] e = "Internal Server Error" ->
         <<"I", "n", "t", "e", "r", "n", "a", "l", " ", "S", "e", "r",
           "v", "e", "r", " ", "E", "r", "r", "o", "r">>
    [] OTHER -> <<>>

\* <ErrorMessage error={chatError || error!} type={getErrorType(chatError || error!)}>
PanelError(s) == IF s.chatError # NoError THEN s.chatError ELSE s.error

PanelType(s) == getErrorType(MessageText(PanelError(s)))

\* {error.message && <p>{error.message}</p>}: the "Error Details" of the panel
PanelDetails(s) == MessageText(PanelError(s))

\* ------------------------------------------------------- the chat endpoint
\* The keys of modelConfig.
ModelConfigIds ==
  {"llama3.2", "llama3.3", "mistral", "gemma2", "qwen2.5", "deepseek-r1",
   "phi3", "llava", "gpt-oss"}

\* modelConfig is an object literal: besides its own keys, a lookup finds the
\* members it inherits from Object.prototype.
InheritedNames ==
  {"constructor", "toString", "toLocaleString", "valueOf", "hasOwnProperty",
   "isPrototypeOf", "propertyIsEnumerable", "__proto__"}

\* modelConfig[name]: the entry of an own key (named by its id), an inherited
\* member, or undefined.
ModelConfigAt(name) ==
  IF name \in ModelConfigIds THEN name
  ELSE IF name \in InheritedNames THEN "Object.prototype." \o name
  ELSE "undefined"

\* The truthiness of a looked-up value: if (!model), && modelConfig[name],
\* .filter(Boolean)
Truthy(v) == v # "undefined"

\* getOllamaModel(modelId): const model = modelConfig[modelId];
\* if (!model) throw new Error(`Model ${modelId} not found`);
\* otherwise the provider's model with its tag.
getOllamaModel(modelId) ==
  IF ~Truthy(ModelConfigAt(modelId))
  THEN [threw |-> TRUE, message |-> "Model " \o modelId \o " not found",
        tag |-> "none"]
  ELSE [threw |-> FALSE, message |-> "none",
        tag |-> IF modelId = "gpt-oss" THEN "gpt-oss:20b"
                ELSE modelId \o ":latest"]

\* const modelId = lastMessage?.metadata?.model || 'llama3.2', read from the
\* first message instead of the last.
RouteModelId_First(msgs) ==
  IF msgs = <<>> THEN "llama3.2"
  ELSE IF msgs[1].model \in {"", "n/a"} THEN "llama3.2" ELSE msgs[1].model

\* const lastMessage = messages[messages.length - 1];
\* const modelId = lastMessage?.metadata?.model || 'llama3.2'
RouteModelId(msgs) ==
  IF msgs = <<>> THEN "llama3.2"   \* lastMessage is undefined
  ELSE LET lastMessage == msgs[Len(msgs)]
       IN IF lastMessage.model \in {"", "n/a"} THEN "llama3.2"
          ELSE lastMessage.model

\* A request to the chat route: a body that is not JSON, a JSON body without
\* messages, or a body with messages.
ChatRequest(kind, msgs) == [kind |-> kind, messages |-> msgs]

NoChatRequest == [kind |-> "none"]

NoChatResponse == [status |-> 0]

\* The try block of POST: req.json() rejects for a body that is not JSON,
\* messages[messages.length - 1] throws for undefined messages, and
\* getOllamaModel throws for an id without a modelConfig value.
TryPost(req) ==
  CASE req.kind = "unparseable" ->
         [threw |-> TRUE, error |-> "SyntaxError", model |-> "none"]
    [] req.kind = "no-messages" ->
         [threw |-> TRUE, error |-> "TypeError", model |-> "none"]
    [] req.kind = "messages" ->
         LET model == getOllamaModel(RouteModelId(req.messages))
         IN IF model.threw
            THEN [threw |-> TRUE, error |-> model.message, model |-> "none"]
            ELSE [threw |-> FALSE, error |-> "none", model |-> model.tag]

\* POST of the chat route: the stream of the model, or in the catch
\* console.error('Chat API error:', error) and 500 Internal Server Error.
PostRequest(req) ==
  LET tried == TryPost(req)
  IN IF tried.threw
     THEN [status |-> 500, body |-> "Internal Server Error", model |-> "none",
           logged |-> tried.error]
     ELSE [status |-> 200, body |-> "stream", model |-> tried.model,
           logged |-> "none"]

\* POST for the messages of a request body.
POST(msgs) == PostRequest(ChatRequest("messages", msgs))

\* ------------------------------------------- a failure on its way to the user
\* The model ids a request to the chat endpoint can carry: one of modelConfig
\* and one that is unknown.
PostedModelIds == {"llama3.2", "nope"}

\* What fetch() rejects with when no connection can be made, by browser engine.
FetchRejections ==
  {"Failed to fetch", "Load failed",
   "NetworkError when attempting to fetch resource."}

\* A failure with its structured signals and the Error the hook reports.
Failure(connection, httpStatus, e) ==
  [connection |-> connection, httpStatus |-> httpStatus, error |-> e]

NoFailure == Failure("none", 0, NoError)

NoRequest == <<>>

NoPanel == [type |-> "none", details |-> <<>>]

\* The structured signals of a failure: connection state and HTTP status.
Signals(f) == <<f.connection, f.httpStatus>>

\* A request is posted to the chat endpoint.
PostChat ==
  /\ posted = NoRequest
  /\ shown = NoPanel
  /\ \E m \in PostedModelIds : posted' = <<UserMessage(1, <<"a">>, m)>>
  /\ UNCHANGED <<appVars, failure, shown, seen, replayVars, restVars>>

\* The connection cannot be established: fetch() rejects.
FetchRejects ==
  /\ posted # NoRequest
  /\ failure = NoFailure
  /\ \E m \in FetchRejections : failure' = Failure("failed", 0, m)
  /\ UNCHANGED <<appVars, posted, shown, seen, replayVars, restVars>>

\* The route answers. A response that is not a success is reported as an
\* Error whose message is the response body.
RouteResponds ==
  /\ posted # NoRequest
  /\ failure = NoFailure
  /\ LET response == POST(posted)
     IN IF response.status = 200
        THEN /\ posted' = NoRequest
             /\ failure' = failure
        ELSE /\ posted' = posted
             /\ failure' = Failure("established", response.status, response.body)
  /\ UNCHANGED <<appVars, shown, seen, replayVars, restVars>>

\* onError -> setChatError -> <ErrorMessage error type={getErrorType(error)}>:
\* the panel shows the title and description of the type and error.message.
ShowError ==
  /\ failure # NoFailure
  /\ shown = NoPanel
  /\ shown' = [type |-> getErrorType(MessageText(failure.error)),
               details |-> MessageText(failure.error)]
  /\ seen' = seen \cup {<<failure, getErrorType(MessageText(failure.error))>>}
  /\ UNCHANGED <<appVars, posted, failure, replayVars, restVars>>

\* The panel is dismissed.
DismissError ==
  /\ shown # NoPanel
  /\ posted' = NoRequest
  /\ failure' = NoFailure
  /\ shown' = NoPanel
  /\ UNCHANGED <<appVars, seen, replayVars, restVars>>

FailureNext ==
  \/ PostChat
  \/ FetchRejects
  \/ RouteResponds
  \/ ShowError
  \/ DismissError

FailureSpec == Init /\ [][FailureNext]_vars

\* ------------------------------------------------- replaying the assembler
\* The events of a replayed sequence.
ReplayEvents ==
  {TextDelta(Hi), TextDelta(There), ToolCall("t1", "search"),
   ToolResult("t1", "found"), ToolResult("t2", "found"), FinishEvent}

RECURSIVE SeqsOfLen(_)
SeqsOfLen(n) ==
  IF n = 0 THEN {<<>>}
  ELSE {Append(q, ev) : q \in SeqsOfLen(n - 1), ev \in ReplayEvents}

EventSeqs == UNION {SeqsOfLen(n) : n \in 1..MaxReplayLen}

\* The replays run side by side, each against a fresh empty message.
Replays == 1..2

\* An event sequence arrives and is given to each replay.
StartReplay ==
  /\ events = <<>>
  /\ \E evs \in EventSeqs : events' = evs
  /\ replays' = [k \in Replays |->
                   [msg |-> Placeholder(k, k), pos |-> 0, failed |-> FALSE]]
  /\ UNCHANGED <<appVars, failureVars, restVars>>

\* A replay applies its next event; an AssemblyError of an open message is
\* surfaced and the replay goes on with the event after it.
ReplayStep ==
  /\ events # <<>>
  /\ \E k \in Replays :
       /\ replays[k].pos < Len(events)
       /\ replays' = [replays EXCEPT ![k] =
            [msg |-> ApplyOpen(events[@.pos + 1], @.msg), pos |-> @.pos + 1,
             failed |-> \/ @.failed
                        \/ /\ @.msg.reason = "none"
                           /\ AssemblyError(events[@.pos + 1], @.msg)]]
  /\ UNCHANGED <<appVars, failureVars, restVars, events>>

AssemblerNext ==
  \/ StartReplay
  \/ ReplayStep

AssemblerSpec == Init /\ [][AssemblerNext]_vars

\* ================================================================ claims
OpenConnections == {r \in Requests : conn[r] = "open"}

\* C1: in every reachable state at most one exchange is in flight: at most
\* one assistant message is still open (two replies never stream at once).
C1_AtMostOneInFlight == Cardinality(InFlight(messages)) <= 1

\* C2: a handleSubmit that runs while the status is submitted or streaming
\* leaves the conversation unchanged and makes no transport call, whichever
\* control invoked it.
C2_BusySubmitRejected ==
  [][(hs' # "none" /\ isLoading) => (messages' = messages /\ conn' = conn)]_vars

\* C3: a handleSubmit whose text is empty after trimming appends no message,
\* leaves the status and the recorded errors as they were and does not call
\* the transport.
C3_EmptySubmitRejected ==
  [][(hs' # "none" /\ Trim(input) = <<>>) =>
       /\ hs' = "returned"
       /\ UNCHANGED <<messages, status, error, activeRequest, conn, wire, input>>
       /\ (lastOp' = "submit" => chatError' = chatError)]_vars

\* C3 witness: white space was submitted with Enter while an error was recorded.
C3_Witness ==
  /\ lastOp = "submit"
  /\ hs = "returned"
  /\ input = <<" ">>
  /\ chatError # NoError
  /\ status = "error"

\* C4: an accepted submit (text not blank, no request active) appends exactly
\* one user message carrying the text and the selected model, then one
\* assistant placeholder with no parts, moves the status to submitted and
\* makes exactly one transport call.
C4_AcceptedSubmit ==
  [][(hs' = "sent" /\ ~isLoading) =>
       LET n == Len(messages) IN
       /\ Len(messages') = n + 2
       /\ SubSeq(messages', 1, n) = messages
       /\ messages'[n + 1].role = "user"
       /\ messages'[n + 1].parts = <<[type |-> "text", text |-> input]>>
       /\ messages'[n + 1].model = selectedModel
       /\ messages'[n + 2].role = "assistant"
       /\ messages'[n + 2].parts = <<>>
       /\ messages'[n + 2].reason = "none"
       /\ status' = "submitted"
       /\ Cardinality(OpenConnections') = Cardinality(OpenConnections) + 1
       /\ \A r \in Requests : conn[r] # "none" => conn'[r] = conn[r]]_vars

\* C4 witness: a second submission, made with another model than the first,
\* was accepted after the first exchange ended.
C4_Witness ==
  /\ hs = "sent"
  /\ status = "submitted"
  /\ Len(messages) = 4
  /\ messages[2].reason # "none"
  /\ messages[1].model # messages[3].model
  /\ messages[4].parts = <<>>

\* The step is a stop() call / the processing of the oldest event of r.
StopStep == lastOp' = "stop"

ProcessStep(r) == wire[r] # <<>> /\ wire'[r] = Tail(wire[r])

ReasonOf(msgs, r) == msgs[AssistantOf(msgs, r)].reason

PartsOf(msgs, r) == msgs[AssistantOf(msgs, r)].parts

\* C5: stop() while streaming makes the terminal reason of the exchange
\* cancelled, and a cancelled exchange stays cancelled whatever event of it
\* is processed afterwards (a finish that was already delivered included).
C5_CancelYieldsCancelled ==
  [][/\ (StopStep /\ status = "streaming") =>
          ReasonOf(messages', activeRequest) = "cancelled"
     /\ \A i \in 1..Len(messages) :
          messages[i].reason = "cancelled" => messages'[i].reason = "cancelled"
    ]_vars

\* C5 witness: the exchange was cancelled while streaming, with its finish
\* event delivered and not yet processed.
C5_Witness ==
  /\ lastOp = "stop"
  /\ conn[1] = "closed"
  /\ ReasonOf(messages, 1) = "cancelled"
  /\ PartsOf(messages, 1) = <<TextPart(Hi)>>
  /\ wire[1] = <<FinishEvent>>

\* C6: stop() while the status is not submitted or streaming changes nothing:
\* conversation, status, errors, input and transport are as before.
C6_CancelNoOpWhenIdle ==
  [][(StopStep /\ ~isLoading) =>
       UNCHANGED <<messages, status, error, chatError, input, activeRequest,
                   conn, wire>>]_vars

\* C6 witness: stop() was called in status error (stop() itself never leads there).
C6_Witness == lastOp = "stop" /\ status = "error"

\* C7: stop() during an exchange moves the status to ready and keeps every
\* part of every message.
C7_CancelKeepsParts ==
  [][(StopStep /\ isLoading) =>
       /\ status' = "ready"
       /\ error' = error
       /\ Len(messages') = Len(messages)
       /\ \A i \in 1..Len(messages) : messages'[i].parts = messages[i].parts
    ]_vars

\* C7 witness: submit, text-delta "Hi", stop: one text part "Hi", status ready.
C7_Witness ==
  /\ lastOp = "stop"
  /\ status = "ready"
  /\ Len(messages) = 2
  /\ messages[2].parts = <<[type |-> "text", text |-> <<"H", "i">>]>>
  /\ messages[2].reason = "cancelled"

\* C8: once an exchange is cancelled the transport delivers no further event
\* of it, and processing an event of it that was already delivered changes
\* neither the conversation nor the status nor the errors.
C8_LateEventsIgnored ==
  [][\A r \in Requests :
       (/\ wire'[r] # wire[r]
        /\ conn[r] # "none"
        /\ ReasonOf(messages, r) = "cancelled") =>
          /\ Len(wire'[r]) <= Len(wire[r])
          /\ ProcessStep(r) =>
                UNCHANGED <<messages, status, error, chatError, input>>]_vars

\* C8 witness: both delivered events belonged to the cancelled first exchange
\* and were processed after its cancellation (its message has no part), the
\* last of them while the second exchange was awaiting its first event.
C8_Witness ==
  /\ conn[1] = "closed"
  /\ ReasonOf(messages, 1) = "cancelled"
  /\ PartsOf(messages, 1) = <<>>
  /\ wire[1] = <<>>
  /\ sent = 2
  /\ conn[2] = "open"
  /\ wire[2] = <<>>
  /\ status = "submitted"
  /\ PartsOf(messages, 2) = <<>>
  /\ ReasonOf(messages, 2) = "none"

UserIndices(msgs) == {i \in 1..Len(msgs) : msgs[i].role = "user"}

AssistantIndices(msgs) == {i \in 1..Len(msgs) : msgs[i].role = "assistant"}

Last(S) == CHOOSE i \in S : \A j \in S : j <= i

LastUser(msgs) == msgs[Last(UserIndices(msgs))]

\* C9: a retry after a failed exchange (status error, a user message exists)
\* removes the last assistant message and issues a new request for the text
\* of the last user message, with the selected model.
C9_RetryResubmitsLastUserText ==
  [][(lastOp' = "retry" /\ status = "error" /\ FreeRequests(Cur) # {}) =>
       /\ status' = "submitted"
       /\ Cardinality(OpenConnections') = Cardinality(OpenConnections) + 1
       /\ LastUser(messages').parts = LastUser(messages).parts
       /\ LastUser(messages').model = selectedModel
       /\ \A i \in 1..Len(messages') :
            messages'[i].id # messages[Last(AssistantIndices(messages))].id
    ]_vars

\* C10: the status changes only along idle/ready/error -> submitted (on an
\* accepted submission), submitted -> streaming, submitted/streaming -> ready
\* and submitted/streaming -> error.
C10_AllowedTransitions ==
  [][status' # status =>
       \/ status \in {"idle", "ready", "error"} /\ status' = "submitted"
                                                 /\ hs' = "sent"
       \/ status = "submitted" /\ status' = "streaming"
       \/ isLoading /\ status' \in {"ready", "error"}
    ]_vars

\* The number of transport calls made so far.
TransportCallCount == Cardinality({r \in Requests : conn[r] # "none"})

\* The transport calls made in this step.
NewRequests == {r \in Requests : conn[r] = "none" /\ conn'[r] # "none"}

C12_ConnectFailureIsNetwork ==
  (shown # NoPanel /\ failure.connection = "failed") => shown.type = "network"

\* C13: a failure keeps every part assembled before it: in the step in which
\* an exchange fails no message is added or removed, every message has the
\* parts it had, and the message list still shows the text of those parts.
C13_FailureKeepsParts ==
  [][(status' = "error" /\ status # "error") =>
       /\ Len(messages') = Len(messages)
       /\ \A i \in 1..Len(messages) : messages'[i].parts = messages[i].parts
       /\ Displayed(Cur)' =
            [i \in 1..Len(messages) |-> DisplayedText(messages[i].parts)]
    ]_vars

\* C13 witness: the exchange failed after "Hi" had been received; the message
\* list shows "Hi" next to the error panel.
C13_Witness ==
  /\ status = "error"
  /\ Len(messages) = 2
  /\ messages[2].reason = "errored"
  /\ messages[2].parts = <<TextPart(Hi)>>
  /\ Displayed(Cur)[2] = Hi
  /\ PanelPresent

\* The texts of the text-delta events of a sequence, joined in arrival order.
RECURSIVE DeltaTexts(_)
DeltaTexts(evs) ==
  IF evs = <<>> THEN <<>>
  ELSE IF Head(evs).type = "text-delta"
       THEN Head(evs).text \o DeltaTexts(Tail(evs))
       ELSE DeltaTexts(Tail(evs))

\* The sequence ends in finish, its only finish.
EndsInFinish(evs) ==
  /\ evs # <<>>
  /\ evs[Len(evs)].type = "finish"
  /\ \A i \in 1..(Len(evs) - 1) : evs[i].type # "finish"

\* C14: once a sequence that ends in finish has been applied to a fresh
\* message, the text shown for the message (its text parts joined, other
\* parts ignored) is the texts of all text-delta events joined in arrival
\* order, and the message is terminal with reason completed.
C14_TextIsConcatenationOfDeltas ==
  \A k \in DOMAIN replays :
    (EndsInFinish(events) /\ replays[k].pos = Len(events)) =>
       /\ DisplayedText(replays[k].msg.parts) = DeltaTexts(events)
       /\ replays[k].msg.reason = "completed"

\* C14 witness: the deltas "Hi" and " there", then finish, were applied: one
\* text part "Hi there", reason completed.
C14_Witness ==
  /\ events = <<TextDelta(Hi), TextDelta(There), FinishEvent>>
  /\ replays[1].pos = 3
  /\ replays[1].msg.parts =
       <<[type |-> "text", text |-> <<"H", "i", " ", "t", "h", "e", "r", "e">>]>>
  /\ DisplayedText(replays[1].msg.parts) =
       <<"H", "i", " ", "t", "h", "e", "r", "e">>
  /\ replays[1].msg.reason = "completed"

\* What is compared of two messages: role, parts and terminal reason.
Structure(msg) == [role |-> msg.role, parts |-> msg.parts, reason |-> msg.reason]

IsPrefix(a, b) == Len(a) <= Len(b) /\ SubSeq(b, 1, Len(a)) = a

\* The parts grew by appending only: every earlier part is still in its
\* place, the last of them at most extended by appended text.
PartsExtend(old, new) ==
  /\ Len(old) <= Len(new)
  /\ \A j \in 1..(Len(old) - 1) : new[j] = old[j]
  /\ old # <<>> =>
       LET a == old[Len(old)]
           b == new[Len(old)]
       IN IF a.type = "text"
          THEN b.type = "text" /\ IsPrefix(a.text, b.text)
          ELSE b = a

\* The assistant message that is streaming: the last message, while it is
\* not terminal.
IsStreamingMessage(msgs, i) ==
  i = Len(msgs) /\ msgs[i].role = "assistant" /\ msgs[i].reason = "none"

\* C15: in every step the conversation only grows: no message is removed or
\* reordered, every message other than the one assistant message that is
\* streaming keeps its content (parts and model) exactly, and the parts of
\* the streaming message grow by appending only.
C15_OnlyStreamingMessageGrows ==
  [][/\ Len(messages) <= Len(messages')
     /\ \A i \in 1..Len(messages) :
          /\ messages'[i].id = messages[i].id
          /\ messages'[i].role = messages[i].role
          /\ IF IsStreamingMessage(messages, i)
             THEN PartsExtend(messages[i].parts, messages'[i].parts)
             ELSE /\ messages'[i].parts = messages[i].parts
                  /\ messages'[i].model = messages[i].model
    ]_vars

\* The failure shown is the answer of the route to a request whose model id
\* the provider does not know.
UnknownModelFailure ==
  /\ posted # NoRequest
  /\ getOllamaModel(RouteModelId(posted)).threw
  /\ failure.connection = "established"

\* C16: the failure of a request that names an unknown model is shown to the
\* user classified as a model error, not as network and not as unknown.
C16_UnknownModelIsModelError ==
  (shown # NoPanel /\ UnknownModelFailure) => shown.type = "model"

ErrorTypes == {"network", "api", "model", "unknown"}

\* C17: every failure shown so far got exactly one kind, the same failure
\* always the same kind, and two failures with the same structured signals
\* (connection state and HTTP status) the same kind whatever their texts.
C17_ClassifiedBySignals ==
  \A p, q \in seen :
    /\ p[2] \in ErrorTypes
    /\ p[1] = q[1] => p[2] = q[2]
    /\ Signals(p[1]) = Signals(q[1]) => p[2] = q[2]

\* C18: while the panel shows a failure of the transport, the text of the
\* raw Error the transport raised is not part of what the panel shows.
C18_RawErrorNotShown ==
  (PanelPresent /\ error # NoError) => PanelDetails(Cur) # MessageText(error)

\* The messages in the body of request r: the conversation up to and
\* including the user message that was submitted.
RequestBody(msgs, r) == SubSeq(msgs, 1, AssistantOf(msgs, r) - 1)

\* C19: the request of a submission carries the whole conversation so far,
\* ending with the submitted user message, and the route answers it with the
\* model that was selected when the submission was made; the model of a
\* request already made never changes, whatever is selected or sent later.
C19_RequestDeterminesModel ==
  [][/\ \A r \in NewRequests :
          LET body == RequestBody(messages', r) IN
          /\ body = Append(messages, messages'[Len(messages) + 1])
          /\ RouteModelId(body) = selectedModel
          /\ LET answer == POST(body)
             IN /\ answer.status = 200
                /\ answer.model = getOllamaModel(selectedModel).tag
     /\ messages' # messages =>
          \A r \in Requests :
            conn[r] # "none" =>
              RouteModelId(RequestBody(messages', r)) =
                RouteModelId(RequestBody(messages, r))
    ]_vars

\* C19 witness: two requests were made, the first for llama3.2 and, after
\* the selection changed, the second for mistral.
C19_Witness ==
  /\ hs = "sent"
  /\ Len(messages) = 4
  /\ conn[2] = "open"
  /\ selectedModel = "mistral"
  /\ POST(RequestBody(messages, 1)).model = "llama3.2:latest"
  /\ POST(RequestBody(messages, 2)).model = "mistral:latest"
  /\ Len(RequestBody(messages, 2)) = 3

\* The event a replay applies in this step, when it applies one.
ReplayApplies(k) ==
  /\ events # <<>>
  /\ events' = events
  /\ replays'[k].pos = replays[k].pos + 1

\* C21: a tool-result event whose id matches no toolInvocation part lacking a
\* result fails assembly with AssemblyError and leaves the message exactly as
\* it was before the event.
C21_UnmatchedResultFails ==
  [][\A k \in Replays :
       (/\ ReplayApplies(k)
        /\ replays[k].msg.reason = "none"
        /\ events[replays[k].pos + 1].type = "tool-result"
        /\ ~\E j \in 1..Len(replays[k].msg.parts) :
              LET part == replays[k].msg.parts[j]
              IN /\ part.type = "tool-invocation"
                 /\ part.id = events[replays[k].pos + 1].id
                 /\ part.result = "none")
       => /\ replays'[k].msg = replays[k].msg
          /\ replays'[k].failed]_vars

\* A result for t2 arrived while only the call t1 was open: the error was
\* surfaced and the call is still without a result.
C21_Witness ==
  /\ Len(events) >= 2
  /\ events[1] = ToolCall("t1", "search")
  /\ events[2] = ToolResult("t2", "found")
  /\ replays[1].pos = 2
  /\ replays[1].failed
  /\ replays[1].msg.parts = <<ToolInvocation("t1", "search")>>

\* C22: in every state the input controls mirror the session status: the stop
\* control is mounted exactly when the status is submitted or streaming, in
\* exactly those states the textarea is disabled and the send control is
\* absent; otherwise the send control is mounted, and it is enabled only when
\* the trimmed input is non-empty.
C22_ControlsMirrorStatus ==
  /\ (button = "stop") <=> isLoading
  /\ TextareaDisabled <=> isLoading
  /\ isLoading => button # "send"
  /\ ~isLoading => /\ button = "send"
                   /\ sendEnabled => Trim(input) # <<>>

\* The requests whose sendMessage has not settled: the assistant message
\* opened for them is not terminal.
PendingSends(msgs) ==
  {r \in Requests :
     \E i \in 1..Len(msgs) :
       msgs[i].role = "assistant" /\ msgs[i].req = r /\ msgs[i].reason = "none"}

\* The text that was submitted with request r: the user message in front of
\* the assistant message opened for r.
SubmittedText(msgs, r) == msgs[AssistantOf(msgs, r) - 1].parts[1].text

\* C23: handleSubmit clears the input only after sendMessage has settled:
\* a submit clears the recorded chatError and leaves the input as it is,
\* while an exchange is in flight the input still holds the text submitted
\* with it, and when the sendMessage of an exchange resolves the input
\* becomes empty.
C23_InputClearedAfterSettle ==
  [][/\ hs' = "sent" => (chatError' = NoError /\ input' = input)
     /\ \A r \in PendingSends(messages) \ PendingSends(messages') :
          input' = <<>>
     /\ \A r \in PendingSends(messages') :
          input' = SubmittedText(messages', r)]_vars

\* The user dismisses a recorded error: the only step that clears chatError
\* without a submit or a retry.
DismissStep ==
  chatError # NoError /\ chatError' = NoError /\ lastOp' = "other"

\* C24: after the user dismisses the error (handleErrorDismiss) the render
\* shows no error panel; the panel is rendered only while an undismissed
\* failure exists.
C24_DismissHidesError ==
  [][DismissStep =>
       ~(Len(messages') # 0 /\ (chatError' # NoError \/ error' # NoError))
    ]_vars

\* ------------------------------------------------- message delivery status
\* The longest message list given to the message list.
MaxListLen == 4

Roles == {"user", "assistant"}

\* The status values of the session.
Statuses == {"idle", "submitted", "streaming", "ready", "error"}

RECURSIVE RoleSeqsOfLen(_)
RoleSeqsOfLen(n) ==
  IF n = 0 THEN {<<>>}
  ELSE {Append(q, r) : q \in RoleSeqsOfLen(n - 1), r \in Roles}

\* The message lists: every order of user and assistant messages.
MessageLists ==
  {[i \in 1..Len(q) |-> [id |-> i, role |-> q[i]]] :
     q \in UNION {RoleSeqsOfLen(n) : n \in 0..MaxListLen}}

\* The status of a message, with every user message sending while loading.
MessageStatus_AnyUser(msgs, loading, index) ==
  IF msgs[index].role = "user"
  THEN IF loading THEN "sending" ELSE "delivered"
  ELSE "undefined"

\* status: message.role === 'user'
\*   ? (index === messages.length - 1 && isLoading ? 'sending' : 'delivered')
\*   : undefined            (index counted from 1 here)
MessageStatus(msgs, loading, index) ==
  IF msgs[index].role = "user"
  THEN IF index = Len(msgs) /\ loading THEN "sending" ELSE "delivered"
  ELSE "undefined"

\* const extendedMessages = messages.map((message, index) => ({...message, status}))
extendedMessages(msgs, loading) ==
  [i \in 1..Len(msgs) |->
     [id |-> msgs[i].id, role |-> msgs[i].role,
      status |-> MessageStatus(msgs, loading, i)]]

\* MessageStatusIcon: null unless a user message with a status, else the icon
\* of the status, named by its aria-label.
MessageStatusIcon(st, role) ==
  IF role # "user" \/ st = "undefined" THEN "null"
  ELSE CASE st = "sending" -> "Sending message"
         [] st = "sent" -> "Message sent"
         [] st = "delivered" -> "Message delivered"
         [] st = "error" -> "Failed to send"

\* Nothing has been rendered yet.
NoListing == [status |-> "none"]

\* Chat renders <MessageList messages={extendedMessages} /> for a message list
\* and a status of the session.
RenderMessageList ==
  /\ \E msgs \in MessageLists, st \in Statuses :
       listing' = [messages |-> msgs, status |-> st,
                   extended |-> extendedMessages(msgs, Loading(st))]
  /\ UNCHANGED <<appVars, failureVars, replayVars, catalogueVars, routeVars>>

RenderNext ==
  \/ RenderMessageList

RenderSpec == Init /\ [][RenderNext]_vars

\* The icon shown with the message at an index of the rendered list.
ShownIcon(i) ==
  MessageStatusIcon(listing.extended[i].status, listing.extended[i].role)

\* C25: a user message is shown as sending exactly when it is the last message
\* of the conversation and the status is submitted or streaming, and as
\* delivered otherwise; so at most one message is sending, none is once the
\* status is ready or error, and an assistant message has no delivery status.
C25_SendingOnlyLastWhileLoading ==
  listing # NoListing =>
  LET n == Len(listing.messages)
      busy == listing.status \in {"submitted", "streaming"}
      sending == {i \in 1..n : ShownIcon(i) = "Sending message"}
  IN /\ Len(listing.extended) = n
     /\ \A i \in 1..n :
          IF listing.messages[i].role = "user"
          THEN /\ i \in sending <=> (i = n /\ busy)
               /\ i \notin sending => ShownIcon(i) = "Message delivered"
          ELSE /\ ShownIcon(i) = "null"
               /\ listing.extended[i].status = "undefined"
     /\ Cardinality(sending) <= 1
     /\ listing.status \in {"ready", "error"} => sending = {}

\* A second user message is the last one while the request is submitted: it is
\* sending, the first one delivered, the assistant message without status.
C25_Witness ==
  /\ listing # NoListing
  /\ Len(listing.messages) = 3
  /\ listing.messages[1].role = "user"
  /\ listing.messages[2].role = "assistant"
  /\ listing.messages[3].role = "user"
  /\ listing.status = "submitted"
  /\ ShownIcon(1) = "Message delivered"
  /\ ShownIcon(2) = "null"
  /\ ShownIcon(3) = "Sending message"

\* ------------------------------------------------------ the model catalogue
\* The longest list of models in the answer of the Ollama server.
MaxTags == 3

\* Names in the answer of the Ollama server to /tags: two tags of llama3.2,
\* a name without a tag, a model that is not configured, and a model named
\* like a member of Object.prototype.
TagNames ==
  {<<"l", "l", "a", "m", "a", "3", ".", "2", ":", "1", "b">>,
   <<"l", "l", "a", "m", "a", "3", ".", "2", ":", "3", "b">>,
   <<"m", "i", "s", "t", "r", "a", "l">>,
   <<"c", "o", "d", "e", "l", "l", "a", "m", "a", ":", "7", "b">>,
   <<"c", "o", "n", "s", "t", "r", "u", "c", "t", "o", "r", ":", "v", "1">>}

\* name.split(':')[0]
RECURSIVE SplitFirst(_)
SplitFirst(t) ==
  IF t = <<>> \/ Head(t) = ":" THEN <<>>
  ELSE <<Head(t)>> \o SplitFirst(Tail(t))

\* The characters of a name as one string.
RECURSIVE Str(_)
Str(t) == IF t = <<>> THEN "" ELSE Head(t) \o Str(Tail(t))

RECURSIVE TagListsOfLen(_)
TagListsOfLen(n) ==
  IF n = 0 THEN {<<>>}
  ELSE {Append(q, t) : q \in TagListsOfLen(n - 1), t \in TagNames}

NoTags == [kind |-> "none"]

\* What the fetch of /tags can give: a rejection, a body that is not JSON, a
\* JSON body without a models array, or a models array.
ServerAnswers ==
  {[kind |-> k, models |-> <<>>] : k \in {"rejected", "unparseable", "no-models"}}
    \cup {[kind |-> "list", models |-> q] :
            q \in UNION {TagListsOfLen(n) : n \in 0..MaxTags}}

\* for (const m of data.models) { const modelName = m.name.split(':')[0];
\*   if (!uniqueModelNames.has(modelName) && modelConfig[modelName]) {
\*     uniqueModelNames.add(modelName); availableModels.push(modelConfig[modelName]) } }
RECURSIVE CollectModels(_, _, _)
CollectModels(names, uniqueModelNames, availableModels) ==
  IF names = <<>> THEN availableModels
  ELSE LET modelName == Str(SplitFirst(Head(names)))
       IN IF modelName \notin uniqueModelNames /\ Truthy(ModelConfigAt(modelName))
          THEN CollectModels(Tail(names), uniqueModelNames \cup {modelName},
                             Append(availableModels, ModelConfigAt(modelName)))
          ELSE CollectModels(Tail(names), uniqueModelNames, availableModels)

\* [value].filter(Boolean)
FilterBoolean(values) == SelectSeq(values, Truthy)

\* The try block of getAvailableModels: fetch, response.json() and the loop
\* over data.models throw for an answer that is no list.
TryAvailableModels(server) ==
  IF server.kind # "list" THEN [threw |-> TRUE, models |-> <<>>]
  ELSE LET availableModels == CollectModels(server.models, {}, <<>>)
       IN [threw |-> FALSE,
           models |-> IF Len(availableModels) = 0
                      THEN FilterBoolean(
                             <<IF Truthy(ModelConfigAt("llama3.2"))
                               THEN ModelConfigAt("llama3.2")
                               ELSE ModelConfigAt("llama3.3")>>)
                      ELSE availableModels]

\* getAvailableModels: the try block, and in the catch
\* return [modelConfig['llama3.3']].filter(Boolean)
getAvailableModels(server) ==
  LET tried == TryAvailableModels(server)
  IN IF tried.threw
     THEN [threw |-> FALSE,
           models |-> FilterBoolean(<<ModelConfigAt("llama3.3")>>)]
     ELSE tried

\* JSON.stringify of a looked-up value: an entry of modelConfig, null for a
\* function, {} for Object.prototype.
JsonOf(v) ==
  IF v \in ModelConfigIds THEN v
  ELSE IF v = "Object.prototype.__proto__" THEN "{}" ELSE "null"

NoCatalogue == [status |-> 0]

\* GET of the models route: Response.json({ models }), or 500 for whatever
\* was thrown.
GET(server) ==
  LET result == getAvailableModels(server)
  IN IF result.threw THEN [status |-> 500, models |-> <<>>]
     ELSE [status |-> 200,
           models |-> [i \in 1..Len(result.models) |-> JsonOf(result.models[i])]]

\* fetchModels after its fetch settled, and without the finally block after
\* a failure.
AfterFetch_NoFinally(sel, res) ==
  IF sel.phase = "resolved" /\ res.status = 200
  THEN [phase |-> "done", models |-> res.models, loading |-> FALSE]
  ELSE [phase |-> "done", models |-> sel.models, loading |-> sel.loading]

\* fetchModels after its fetch settled: const data = await response.json();
\* setModels(data.models); catch: console.error; finally: setLoading(false)
AfterFetch(sel, res) ==
  IF sel.phase = "resolved" /\ res.status = 200
  THEN [phase |-> "done", models |-> res.models, loading |-> FALSE]
  ELSE [phase |-> "done", models |-> sel.models, loading |-> FALSE]

\* useEffect(() => { fetchModels() }, []): fetch('/api/models') is sent.
StartFetch ==
  /\ selector.phase = "mounted"
  /\ selector' = [selector EXCEPT !.phase = "fetching"]
  /\ UNCHANGED <<appVars, failureVars, replayVars, renderVars, routeVars,
                 tags, catalogue>>

\* The fetch of /tags by getAvailableModels settles.
OllamaAnswers ==
  /\ selector.phase = "fetching"
  /\ tags = NoTags
  /\ \E answer \in ServerAnswers : tags' = answer
  /\ UNCHANGED <<appVars, failureVars, replayVars, renderVars, routeVars,
                 catalogue, selector>>

\* The models route answers.
GetModels ==
  /\ tags # NoTags
  /\ catalogue = NoCatalogue
  /\ catalogue' = GET(tags)
  /\ UNCHANGED <<appVars, failureVars, replayVars, renderVars, routeVars,
                 tags, selector>>

\* The selector's fetch resolves with the answer of the route.
FetchModelsResolves ==
  /\ selector.phase = "fetching"
  /\ catalogue # NoCatalogue
  /\ selector' = [selector EXCEPT !.phase = "resolved"]
  /\ UNCHANGED <<appVars, failureVars, replayVars, renderVars, routeVars,
                 tags, catalogue>>

\* The selector's fetch rejects: the route cannot be reached.
FetchModelsRejects ==
  /\ selector.phase = "fetching"
  /\ selector' = [selector EXCEPT !.phase = "rejected"]
  /\ UNCHANGED <<appVars, failureVars, replayVars, renderVars, routeVars,
                 tags, catalogue>>

\* fetchModels continues after the await.
FetchModelsContinues ==
  /\ selector.phase \in {"resolved", "rejected"}
  /\ selector' = AfterFetch(selector, catalogue)
  /\ UNCHANGED <<appVars, failureVars, replayVars, renderVars, routeVars,
                 tags, catalogue>>

CatalogueNext ==
  \/ StartFetch
  \/ OllamaAnswers
  \/ GetModels
  \/ FetchModelsResolves
  \/ FetchModelsRejects
  \/ FetchModelsContinues
  \/ SelectModel

CatalogueSpec == CatalogueInit /\ [][CatalogueNext]_vars

\* The ids of modelConfig named by the server's list, tags dropped.
ConfiguredIn(names) ==
  {id \in ModelConfigIds :
     \E i \in 1..Len(names) : Str(SplitFirst(names[i])) = id}

\* C26: getAvailableModels never returns an empty list and never throws: for
\* a tag list without a configured model it returns exactly [llama3.2], for a
\* failed fetch or parse (a body without models array included) exactly
\* [llama3.3]; so GET /api/models always answers with a non-empty models list.
C26_CatalogueNeverEmpty ==
  tags # NoTags =>
    LET result == getAvailableModels(tags) IN
    /\ ~result.threw
    /\ Len(result.models) >= 1
    /\ (tags.kind = "list" /\ ConfiguredIn(tags.models) = {})
         => result.models = <<"llama3.2">>
    /\ tags.kind # "list" => result.models = <<"llama3.3">>
    /\ catalogue # NoCatalogue =>
         (catalogue.status = 200 /\ Len(catalogue.models) >= 1)

\* Where a model id first occurs in the server's list.
FirstOccurrence(names, id) ==
  CHOOSE i \in 1..Len(names) :
    /\ Str(SplitFirst(names[i])) = id
    /\ \A j \in 1..(i - 1) : Str(SplitFirst(names[j])) # id

\* C27: for every server tag list getAvailableModels returns only entries of
\* modelConfig, no model id twice, in the order of each model's first
\* occurrence in the server list: tags differing only after ':' collapse to
\* one entry and names not in modelConfig are skipped.
C27_CatalogueFromConfigInOrder ==
  tags.kind = "list" =>
    LET result == getAvailableModels(tags).models
        found == ConfiguredIn(tags.models)
    IN /\ \A i \in 1..Len(result) : result[i] \in ModelConfigIds
       /\ \A i, j \in 1..Len(result) : result[i] = result[j] => i = j
       /\ found # {} =>
            /\ {result[i] : i \in 1..Len(result)} = found
            /\ \A i, j \in 1..Len(result) :
                 (result[i] \in found /\ result[j] \in found /\ i < j) =>
                   FirstOccurrence(tags.models, result[i])
                     < FirstOccurrence(tags.models, result[j])

\* The continuation of fetchModels runs once its fetch has settled: a settled
\* promise schedules its continuation, and nothing in the selector cancels it.
CatalogueLiveSpec == CatalogueSpec /\ WF_vars(FetchModelsContinues)

\* The selector's fetch has settled and fetchModels has not continued yet.
FetchSettled == selector.phase \in {"resolved", "rejected"}

\* C29: the selector's loading flag is true from mount and becomes false once
\* the catalogue fetch settles, whether it succeeds or fails, and never true
\* again; the selector is disabled while loading; after a failed fetch the
\* list of models is left empty and the selected model stays selected.
C29_LoadingUntilFetchSettles ==
  /\ [](selector.phase # "done" => selector.loading)
  /\ [][selector.loading' # selector.loading =>
          (selector.loading /\ FetchSettled /\ selector.phase' = "done")]_vars
  /\ FetchSettled ~> ~selector.loading
  /\ [][selectedModel' # selectedModel => ~selector.loading]_vars
  /\ [][(selector.phase = "rejected" /\ selector.phase' = "done") =>
          (selector.models' = <<>> /\ selectedModel' = selectedModel)]_vars

\* The fetch failed before the route answered: loading has ended, there are
\* no models, and llama3.2 is still selected.
C29_Witness ==
  /\ selector.phase = "done"
  /\ ~selector.loading
  /\ selector.models = <<>>
  /\ catalogue = NoCatalogue
  /\ selectedModel = "llama3.2"

\* ------------------------------------------------ requests to the chat route
\* The most messages in a request body.
MaxBodyLen == 2

\* The model a message's metadata names: none, configured ones, unknown ones,
\* and names of members of Object.prototype.
RequestModelIds ==
  {"n/a", "llama3.2", "mistral", "gpt-oss", "nope", "constructor", "toString"}

RECURSIVE BodiesOfLen(_)
BodiesOfLen(n) ==
  IF n = 0 THEN {<<>>}
  ELSE {Append(q, UserMessage(n, <<"a">>, m)) :
          q \in BodiesOfLen(n - 1), m \in RequestModelIds}

ChatRequests ==
  {ChatRequest(k, <<>>) : k \in {"unparseable", "no-messages"}}
    \cup {ChatRequest("messages", q) :
            q \in UNION {BodiesOfLen(n) : n \in 0..MaxBodyLen}}

\* A request arrives at the chat route.
ReceivePost ==
  /\ chatRequest = NoChatRequest
  /\ \E req \in ChatRequests : chatRequest' = req
  /\ UNCHANGED <<appVars, failureVars, replayVars, renderVars, catalogueVars,
                 chatResponse>>

\* The chat route answers it.
AnswerPost ==
  /\ chatRequest # NoChatRequest
  /\ chatResponse = NoChatResponse
  /\ chatResponse' = PostRequest(chatRequest)
  /\ UNCHANGED <<appVars, failureVars, replayVars, renderVars, catalogueVars,
                 chatRequest>>

RouteNext ==
  \/ ReceivePost
  \/ AnswerPost

RouteSpec == Init /\ [][RouteNext]_vars

\* The model id in the metadata of the last message of the answered request.
LastModelId == chatRequest.messages[Len(chatRequest.messages)].model

\* The request has messages and its last message names a model.
NamesModel ==
  /\ chatRequest.kind = "messages"
  /\ chatRequest.messages # <<>>
  /\ LastModelId # "n/a"

ServerError ==
  /\ chatResponse.status = 500
  /\ chatResponse.body = "Internal Server Error"

\* C28: the chat route takes the model from the metadata of the last message
\* and falls back to llama3.2 when there is none; a body that is not JSON,
\* a body without messages and a model id that is not in modelConfig are
\* answered with 500 Internal Server Error, and nothing leaves the handler
\* but a response.
C28_ChatRouteAnswers ==
  chatResponse # NoChatResponse =>
    /\ chatResponse.status \in {200, 500}
    /\ chatRequest.kind \in {"unparseable", "no-messages"} => ServerError
    /\ (chatRequest.kind = "messages" /\ ~NamesModel) =>
         (chatResponse.status = 200 /\ chatResponse.model = "llama3.2:latest")
    /\ NamesModel =>
         IF LastModelId \in ModelConfigIds
         THEN /\ chatResponse.status = 200
              /\ chatResponse.model = getOllamaModel(LastModelId).tag
         ELSE ServerError

\* C30: getOllamaModel throws 'Model <id> not found' for every id that is not
\* a key of modelConfig, and resolves every other id to the provider model
\* <id>:latest, gpt-oss to gpt-oss:20b; an id that is not configured never
\* gets a provider model.
C30_OnlyConfiguredModelsResolve ==
  (chatResponse # NoChatResponse /\ NamesModel) =>
    LET model == getOllamaModel(LastModelId) IN
    IF LastModelId \in ModelConfigIds
    THEN /\ ~model.threw
         /\ model.tag = IF LastModelId = "gpt-oss" THEN "gpt-oss:20b"
                        ELSE LastModelId \o ":latest"
         /\ chatResponse.model = model.tag
    ELSE /\ model.threw
         /\ model.message = "Model " \o LastModelId \o " not found"
         /\ chatResponse.logged = model.message
         /\ chatResponse.model = "none"

====
